---- MODULE Spec2Model ----
(***************************************************************************)
(* A model of the try-catch helper (src/src/index.ts): the dispatcher      *)
(* tryCatch, its helper returnCatchAbleErrorOrThrow, the built-in catch    *)
(* conditions and the condition factory createCatchCondition, together     *)
(* with the part of the runtime they rely on (typeof, prototype chains,    *)
(* instanceof, promises and the microtask queue).                          *)
(***************************************************************************)
EXTENDS Integers, Sequences, FiniteSets, TLC

VARIABLES calls, microtasks, settleOrder, listSeen, probeValue, probeSeen

vars == <<calls, microtasks, settleOrder, listSeen, probeValue, probeSeen>>

(***************************************************************************)
(* Bounds of the model.                                                    *)
(***************************************************************************)
\* longest condition list a call is given
MaxConds == 2
\* how many distinct objects of each object kind exist
MaxIds == 2
\* how many conditions are applied to one probed value
MaxProbes == 2
\* how many calls of tryCatch are in flight together
MaxCalls == 2

(***************************************************************************)
(* Runtime values.  A value is a record with a kind (how it was built) and *)
(* an id (its identity: two objects of the same kind with different ids    *)
(* are different objects; primitives have id 0).                           *)
(***************************************************************************)
PrimitiveKinds ==
  {"Undefined", "Null", "Boolean", "Number", "String", "BigInt", "Symbol"}

ObjectKinds ==
  {"Function", "Array", "Object", "NullProtoObject", "Error", "CustomError",
   "CustomClass", "Date"}

Val(k, i) == [kind |-> k, id |-> i]

Undefined == Val("Undefined", 0)

Values ==
  {Val(k, 0) : k \in PrimitiveKinds} \cup
  {Val(k, i) : k \in ObjectKinds, i \in 1..MaxIds}

\* thenables: instances of a caller's class with a then method, which are
\* not instances of Promise
Thenables == {Val("Thenable", i) : i \in 1..MaxIds}

\* the array literal [a, b, ...] built by the dispatcher
Tuple(items) == [kind |-> "Array", items |-> items]

\* the promise number n of call c (0: returned by fn, 1: .then, 2: .catch)
PromiseRef(c, n) == [kind |-> "Promise", call |-> c, n |-> n]

\* typeof v
TypeOf(v) ==
  CASE v.kind = "Undefined" -> "undefined"
    [] v.kind = "Boolean" -> "boolean"
    [] v.kind = "Number" -> "number"
    [] v.kind = "String" -> "string"
    [] v.kind = "BigInt" -> "bigint"
    [] v.kind = "Symbol" -> "symbol"
    [] v.kind = "Function" -> "function"
    [] OTHER -> "object"

\* whether v is an object in the language's sense (primitives and null are not)
IsObject(v) ==
  \/ TypeOf(v) = "function"
  \/ TypeOf(v) = "object" /\ v.kind # "Null"

\* Object.getPrototypeOf(v) for an object v, "null" when it has none
GetPrototypeOf(v) ==
  CASE v.kind = "Function" -> "Function.prototype"
    [] v.kind = "Array" -> "Array.prototype"
    [] v.kind = "Object" -> "Object.prototype"
    [] v.kind = "NullProtoObject" -> "null"
    [] v.kind = "Error" -> "Error.prototype"
    [] v.kind = "CustomError" -> "CustomError.prototype"
    [] v.kind = "TypeError" -> "TypeError.prototype"
    [] v.kind = "CustomClass" -> "CustomClass.prototype"
    [] v.kind = "Date" -> "Date.prototype"
    [] v.kind = "Promise" -> "Promise.prototype"
    [] v.kind = "Thenable" -> "Thenable.prototype"
    [] OTHER -> "null"

\* the prototype of a prototype object
ParentPrototype(p) ==
  CASE p = "CustomError.prototype" -> "Error.prototype"
    [] p = "TypeError.prototype" -> "Error.prototype"
    [] p = "Object.prototype" -> "null"
    [] p = "null" -> "null"
    [] OTHER -> "Object.prototype"

RECURSIVE ChainFrom(_)
\* the prototype chain that starts at prototype p
ChainFrom(p) == IF p = "null" THEN {} ELSE {p} \cup ChainFrom(ParentPrototype(p))

\* v instanceof C, for a class C whose prototype property is C.prototype
InstanceOf(v, C) ==
  IsObject(v) /\ (C \o ".prototype") \in ChainFrom(GetPrototypeOf(v))

\* v.constructor, looked up along the prototype chain
ConstructorOf(v) ==
  CASE GetPrototypeOf(v) = "Function.prototype" -> "Function"
    [] GetPrototypeOf(v) = "Array.prototype" -> "Array"
    [] GetPrototypeOf(v) = "Object.prototype" -> "Object"
    [] GetPrototypeOf(v) = "Error.prototype" -> "Error"
    [] GetPrototypeOf(v) = "CustomError.prototype" -> "CustomError"
    [] GetPrototypeOf(v) = "TypeError.prototype" -> "TypeError"
    [] GetPrototypeOf(v) = "CustomClass.prototype" -> "CustomClass"
    [] GetPrototypeOf(v) = "Date.prototype" -> "Date"
    [] GetPrototypeOf(v) = "Promise.prototype" -> "Promise"
    [] GetPrototypeOf(v) = "Thenable.prototype" -> "Thenable"
    [] OTHER -> "undefined"

(***************************************************************************)
(* The built-in catch conditions and the condition factory.                *)
(***************************************************************************)
isArrayThrown(error) == error.kind = "Array"

isBigIntThrown(error) == TypeOf(error) = "bigint"

isBooleanThrown(error) == TypeOf(error) = "boolean"

\* a plausible slip: the prototype comparison left out
isErrorThrownNoPrototypeCheck(error) == InstanceOf(error, "Error")

isErrorThrown(error) ==
  InstanceOf(error, "Error") /\ GetPrototypeOf(error) = "Error.prototype"

isFunctionThrown(error) == TypeOf(error) = "function"

isInstanceOfErrorThrown(error) == InstanceOf(error, "Error")

\* a plausible slip: the loose comparison error == null, true of undefined too
isNullThrownLoose(error) == error.kind \in {"Null", "Undefined"}

isNullThrown(error) == error.kind = "Null"

isNumberThrown(error) == TypeOf(error) = "number"

\* a plausible slip: the constructor and prototype comparisons left out
isObjectThrownTypeOfOnly(error) ==
  /\ TypeOf(error) = "object"
  /\ error.kind # "Null"

isObjectThrown(error) ==
  /\ TypeOf(error) = "object"
  /\ error.kind # "Null"
  /\ ConstructorOf(error) = "Object"
  /\ GetPrototypeOf(error) = "Object.prototype"

isStringThrown(error) == TypeOf(error) = "string"

isSymbolThrown(error) == TypeOf(error) = "symbol"

\* a plausible slip: the comparison with null left out
isTypeOfObjectThrownNullIncluded(error) == TypeOf(error) = "object"

isTypeOfObjectThrown(error) == TypeOf(error) = "object" /\ error.kind # "Null"

isUndefinedThrown(error) == TypeOf(error) = "undefined"

\* a plausible slip: the class of the value compared with ClassName, where
\* the code tests the whole prototype chain
createCatchConditionExactClass(ClassName, error) ==
  IsObject(error) /\ ConstructorOf(error) = ClassName

\* createCatchCondition(ClassName)(error)
createCatchCondition(ClassName, error) == InstanceOf(error, ClassName)

BuiltInNames ==
  {"isArrayThrown", "isBigIntThrown", "isBooleanThrown", "isErrorThrown",
   "isFunctionThrown", "isInstanceOfErrorThrown", "isNullThrown",
   "isNumberThrown", "isObjectThrown", "isStringThrown", "isSymbolThrown",
   "isTypeOfObjectThrown", "isUndefinedThrown"}

\* the classes the factory is given
FactoryClasses == {"CustomClass", "CustomError"}

\* the TypeError the runtime raises when a property of null or undefined is
\* read (a new object, different from every value a callback raises)
CondRaised == Val("TypeError", 0)

\* A CatchCondition is any function from the raised value to a boolean: the
\* built-ins, the factory's predicates, and a caller's own function, here
\* hasCode, (error) => error.code === 'E', which reads a property of the
\* raised value.
Conditions ==
  [name : BuiltInNames, cls : {"-"}] \cup
  [name : {"createCatchCondition"}, cls : FactoryClasses] \cup
  [name : {"hasCode"}, cls : {"-"}]

Return(v) == [type |-> "return", val |-> v]

Throw(v) == [type |-> "throw", val |-> v]

\* the caller's condition (error) => error.code === 'E': reading the property
\* raises a TypeError when error is null or undefined, and no value of the
\* model has the property
hasCode(error) ==
  IF error.kind \in {"Null", "Undefined"} THEN Throw(CondRaised)
  ELSE Return(FALSE)

\* cond(error): the completion of applying one condition to a raised value
ApplyCond(cond, error) ==
  CASE cond.name = "isArrayThrown" -> Return(isArrayThrown(error))
    [] cond.name = "isBigIntThrown" -> Return(isBigIntThrown(error))
    [] cond.name = "isBooleanThrown" -> Return(isBooleanThrown(error))
    [] cond.name = "isErrorThrown" -> Return(isErrorThrown(error))
    [] cond.name = "isFunctionThrown" -> Return(isFunctionThrown(error))
    [] cond.name = "isInstanceOfErrorThrown" ->
         Return(isInstanceOfErrorThrown(error))
    [] cond.name = "isNullThrown" -> Return(isNullThrown(error))
    [] cond.name = "isNumberThrown" -> Return(isNumberThrown(error))
    [] cond.name = "isObjectThrown" -> Return(isObjectThrown(error))
    [] cond.name = "isStringThrown" -> Return(isStringThrown(error))
    [] cond.name = "isSymbolThrown" -> Return(isSymbolThrown(error))
    [] cond.name = "isTypeOfObjectThrown" -> Return(isTypeOfObjectThrown(error))
    [] cond.name = "isUndefinedThrown" -> Return(isUndefinedThrown(error))
    [] cond.name = "createCatchCondition" ->
         Return(createCatchCondition(cond.cls, error))
    [] OTHER -> hasCode(error)

(***************************************************************************)
(* The dispatcher.                                                         *)
(***************************************************************************)
RECURSIVE EveryFrom(_, _, _)
\* a plausible slip: every() in the place of some()
EveryFrom(catchConditions, error, i) ==
  IF i > Len(catchConditions)
  THEN [type |-> "return", val |-> TRUE, applied |-> <<>>]
  ELSE LET c == ApplyCond(catchConditions[i], error)
       IN  IF c.type = "throw"
           THEN [type |-> "throw", val |-> c.val, applied |-> <<i>>]
           ELSE IF ~c.val
                THEN [type |-> "return", val |-> FALSE, applied |-> <<i>>]
                ELSE LET rest == EveryFrom(catchConditions, error, i + 1)
                     IN  [rest EXCEPT !.applied = <<i>> \o @]

RECURSIVE SomeEager(_, _, _)
\* a plausible slip: every condition is applied before the answers are
\* looked at, catchConditions.map((cond) => cond(error)).includes(true)
SomeEager(catchConditions, error, i) ==
  IF i > Len(catchConditions)
  THEN [type |-> "return", val |-> FALSE, applied |-> <<>>]
  ELSE LET c == ApplyCond(catchConditions[i], error)
       IN  IF c.type = "throw"
           THEN [type |-> "throw", val |-> c.val, applied |-> <<i>>]
           ELSE LET rest == SomeEager(catchConditions, error, i + 1)
                IN  [type |-> rest.type,
                     val |-> IF rest.type = "throw" THEN rest.val
                             ELSE c.val \/ rest.val,
                     applied |-> <<i>> \o rest.applied]

\* a plausible slip: only the first condition of the list is consulted,
\* catchConditions[0](error)
SomeFirstOnly(catchConditions, error, i) ==
  IF i > Len(catchConditions)
  THEN [type |-> "return", val |-> FALSE, applied |-> <<>>]
  ELSE LET c == ApplyCond(catchConditions[i], error)
       IN  [type |-> c.type, val |-> c.val, applied |-> <<i>>]

RECURSIVE SomeFromGuarded(_, _, _)
\* a plausible slip: each condition applied inside a try block of its own,
\* a condition that raises counting as one that returned false
SomeFromGuarded(catchConditions, error, i) ==
  IF i > Len(catchConditions)
  THEN [type |-> "return", val |-> FALSE, applied |-> <<>>]
  ELSE LET c == ApplyCond(catchConditions[i], error)
       IN  IF c.type = "return" /\ c.val
           THEN [type |-> "return", val |-> TRUE, applied |-> <<i>>]
           ELSE LET rest == SomeFromGuarded(catchConditions, error, i + 1)
                IN  [rest EXCEPT !.applied = <<i>> \o @]

RECURSIVE SomeFrom(_, _, _)
\* catchConditions.some((cond) => cond(error)) from position i on: conditions
\* are applied in list order until one returns true or raises; "applied" is
\* the list positions of the conditions that were applied, in the order of
\* their application
SomeFrom(catchConditions, error, i) ==
  IF i > Len(catchConditions)
  THEN [type |-> "return", val |-> FALSE, applied |-> <<>>]
  ELSE LET c == ApplyCond(catchConditions[i], error)
       IN  IF c.type = "throw"
           THEN [type |-> "throw", val |-> c.val, applied |-> <<i>>]
           ELSE IF c.val
                THEN [type |-> "return", val |-> TRUE, applied |-> <<i>>]
                ELSE LET rest == SomeFrom(catchConditions, error, i + 1)
                     IN  [rest EXCEPT !.applied = <<i>> \o @]

\* a plausible slip: the unmatched value is returned like a matched one (the
\* throw statement left out)
returnCatchAbleErrorOrThrowNeverThrows(error, catchConditions) ==
  IF Len(catchConditions) = 0
  THEN [type |-> "return", val |-> Tuple(<<error>>), applied |-> <<>>]
  ELSE LET some == SomeFrom(catchConditions, error, 1)
       IN  IF some.type = "throw"
           THEN [type |-> "throw", val |-> some.val, applied |-> some.applied]
           ELSE [type |-> "return", val |-> Tuple(<<error>>),
                 applied |-> some.applied]

\* a plausible slip: the caught value is returned as a pair, [error, undefined]
returnCatchAbleErrorOrThrowPadded(error, catchConditions) ==
  IF Len(catchConditions) = 0
  THEN [type |-> "return", val |-> Tuple(<<error, Undefined>>), applied |-> <<>>]
  ELSE LET some == SomeFrom(catchConditions, error, 1)
       IN  IF some.type = "throw"
           THEN [type |-> "throw", val |-> some.val, applied |-> some.applied]
           ELSE IF some.val
                THEN [type |-> "return", val |-> Tuple(<<error, Undefined>>),
                      applied |-> some.applied]
                ELSE [type |-> "throw", val |-> error,
                      applied |-> some.applied]

\* a plausible slip: the unmatched value is wrapped, throw new Error(..)
returnCatchAbleErrorOrThrowWrapped(error, catchConditions) ==
  IF Len(catchConditions) = 0
  THEN [type |-> "return", val |-> Tuple(<<error>>), applied |-> <<>>]
  ELSE LET some == SomeFrom(catchConditions, error, 1)
       IN  IF some.type = "throw"
           THEN [type |-> "throw", val |-> some.val, applied |-> some.applied]
           ELSE IF some.val
                THEN [type |-> "return", val |-> Tuple(<<error>>),
                      applied |-> some.applied]
                ELSE [type |-> "throw", val |-> Val("Error", 0),
                      applied |-> some.applied]

returnCatchAbleErrorOrThrow(error, catchConditions) ==
  IF Len(catchConditions) = 0
  THEN [type |-> "return", val |-> Tuple(<<error>>), applied |-> <<>>]
  ELSE LET some == SomeFrom(catchConditions, error, 1)
       IN  IF some.type = "throw"
           THEN [type |-> "throw", val |-> some.val, applied |-> some.applied]
           ELSE IF some.val
                THEN [type |-> "return", val |-> Tuple(<<error>>),
                      applied |-> some.applied]
                ELSE [type |-> "throw", val |-> error,
                      applied |-> some.applied]

\* What a callback does when it is invoked: it returns an immediate value
\* (a thenable is one), raises a value, or returns a promise that is pending
\* or already settled.
Fns ==
  [mode : {"return", "throw"}, state : {"-"}, val : Values] \cup
  [mode : {"return"}, state : {"-"}, val : Thenables] \cup
  [mode : {"promise"}, state : {"pending"}, val : {Undefined}] \cup
  [mode : {"promise"}, state : {"fulfilled", "rejected"}, val : Values]

\* the conditions that calls are given in their lists: the kind-specific
\* built-ins, the two built-ins that compare the prototype, the factory's
\* predicate for a subclass of Error, and the caller's own condition (the
\* dispatcher sees of a condition only what it answers; every condition of
\* the library is probed on its own)
CallConditions ==
  {cond \in Conditions :
     /\ cond.name \notin {"isInstanceOfErrorThrown", "isTypeOfObjectThrown"}
     /\ cond.cls # "CustomClass"}

\* the condition lists of at most n conditions
CondLists(n) == UNION {[1..k -> CallConditions] : k \in 0..n}

\* the second argument of a call: omitted, or a list
CondArgs ==
  {[given |-> FALSE, list |-> <<>>]} \cup
  [given : {TRUE}, list : CondLists(MaxConds)]

\* fn(), in call c
InvokeFn(fn, c) ==
  CASE fn.mode = "return" -> Return(fn.val)
    [] fn.mode = "throw" -> Throw(fn.val)
    [] OTHER -> Return(PromiseRef(c, 0))

Promise(state, value) == [state |-> state, value |-> value]

Pending == Promise("pending", Undefined)

\* a plausible slip: the default of the earlier major version, under which
\* an omitted list stood for "instances of Error"
DefaultCondsErrorsOnly(arg) ==
  IF arg.given THEN arg.list
  ELSE <<[name |-> "isInstanceOfErrorThrown", cls |-> "-"]>>

\* catchConditions: CatchCondition[] = []
DefaultConds(arg) == IF arg.given THEN arg.list ELSE <<>>

\* the record the model keeps of one call of tryCatch: "completion" is what
\* the caller gets when control comes back (a returned value or a raised
\* one), "invoked" counts the invocations of fn, "applied" lists the
\* positions of the conditions applied so far, in the order of their
\* application, and "promises" are the promises of the chain
\* result.then(..).catch(..): the one fn returned, the one then() returned and
\* the one catch() returned (none in immediate mode)
CallRecord(fn, arg, invoked, applied, completion, promises) ==
  [fn |-> fn, arg |-> arg, invoked |-> invoked, applied |-> applied,
   completion |-> completion, promises |-> promises]

\* a plausible slip: the deferred branch calls fn a second time to get the
\* promise it chains on, fn().then(..).catch(..)
DeferredReturnInvokesAgain(fn, arg, c) ==
  [call |-> CallRecord(fn, arg, 2, <<>>, Return(PromiseRef(c, 2)),
                       <<Promise(fn.state, fn.val), Pending, Pending>>),
   jobs |-> IF fn.state = "pending" THEN <<>> ELSE <<[call |-> c, n |-> 1]>>]

\* a plausible slip: the return statement left out before the chain, so that
\* control falls through to return [undefined, result]
DeferredReturnFallsThrough(fn, arg, c) ==
  [call |-> CallRecord(fn, arg, 1, <<>>,
                       Return(Tuple(<<Undefined, PromiseRef(c, 0)>>)),
                       <<Promise(fn.state, fn.val), Pending, Pending>>),
   jobs |-> IF fn.state = "pending" THEN <<>> ELSE <<[call |-> c, n |-> 1]>>]

\* a plausible slip: the function made async, so that the pair comes back
\* wrapped in a promise
ImmediateReturnAsPromise(fn, arg, c, result) ==
  [call |-> CallRecord(fn, arg, 1, <<>>, Return(PromiseRef(c, 2)),
                       <<Promise("fulfilled", result),
                         Promise("fulfilled", Tuple(<<Undefined, result>>)),
                         Promise("fulfilled", Tuple(<<Undefined, result>>))>>),
   jobs |-> <<>>]

\* a plausible slip: the fulfilment value passed on as it is, (res) => res
OnFulfilledBare(res) == res

\* (res) => [undefined, res]
OnFulfilled(res) == Tuple(<<Undefined, res>>)

\* (maybeError) => returnCatchAbleErrorOrThrow(maybeError, catchConditions)
OnRejected(maybeError, catchConditions) ==
  returnCatchAbleErrorOrThrow(maybeError, catchConditions)

\* a plausible slip: the promise recognised by its then method
IsDeferredByThenMethod(result) ==
  InstanceOf(result, "Promise") \/ result \in Thenables

\* result instanceof Promise
IsDeferred(result) == InstanceOf(result, "Promise")

\* a plausible slip: tryCatch made an async function, so that what its catch
\* block returns or raises comes back inside a promise
CatchBlockAsPromise(fn, arg, c, maybeError) ==
  LET r == returnCatchAbleErrorOrThrow(maybeError, DefaultConds(arg))
      settled == Promise(IF r.type = "return" THEN "fulfilled" ELSE "rejected",
                         r.val)
  IN  [call |-> CallRecord(fn, arg, 1, r.applied, Return(PromiseRef(c, 2)),
                           <<settled, settled, settled>>),
       jobs |-> <<>>]

\* the catch block: fn() raised maybeError
CatchBlock(fn, arg, c, maybeError) ==
  LET r == returnCatchAbleErrorOrThrow(maybeError, DefaultConds(arg))
  IN  [call |-> CallRecord(fn, arg, 1, r.applied,
                           [type |-> r.type, val |-> r.val], <<>>),
       jobs |-> <<>>]

\* a plausible slip: the pair is wrapped before the promise fn returned has
\* settled, return Promise.resolve([undefined, result])
DeferredReturnNotAwaited(fn, arg, c) ==
  [call |-> CallRecord(fn, arg, 1, <<>>, Return(PromiseRef(c, 2)),
                       <<Promise(fn.state, fn.val), Pending,
                         Promise("fulfilled",
                                 Tuple(<<Undefined, PromiseRef(c, 0)>>))>>),
   jobs |-> IF fn.state = "pending" THEN <<>> ELSE <<[call |-> c, n |-> 1]>>]

\* return result.then(..).catch(..): the chain is built on the promise fn
\* returned and its last promise is returned; a promise job is enqueued at
\* once when the promise fn returned is already settled
DeferredReturn(fn, arg, c) ==
  [call |-> CallRecord(fn, arg, 1, <<>>, Return(PromiseRef(c, 2)),
                       <<Promise(fn.state, fn.val), Pending, Pending>>),
   jobs |-> IF fn.state = "pending" THEN <<>> ELSE <<[call |-> c, n |-> 1]>>]

\* a plausible slip: the error slot left out, return [result]
ImmediateReturnNoErrorSlot(fn, arg, c, result) ==
  [call |-> CallRecord(fn, arg, 1, <<>>, Return(Tuple(<<result>>)), <<>>),
   jobs |-> <<>>]

\* a plausible slip: a returned value is matched against a non-empty list
\* like a raised one, and comes back as [result] when a condition is true
ImmediateReturnClassifies(fn, arg, c, result) ==
  LET some == SomeFrom(DefaultConds(arg), result, 1)
  IN  [call |-> CallRecord(fn, arg, 1, some.applied,
                           IF some.type = "return" /\ some.val
                           THEN Return(Tuple(<<result>>))
                           ELSE Return(Tuple(<<Undefined, result>>)),
                           <<>>),
       jobs |-> <<>>]

\* return [undefined, result]
ImmediateReturn(fn, arg, c, result) ==
  [call |-> CallRecord(fn, arg, 1, <<>>, Return(Tuple(<<Undefined, result>>)),
                       <<>>),
   jobs |-> <<>>]

\* The synchronous part of tryCatch(fn, catchConditions), as call number c:
\* "call" is the record of the call once control is back with the caller,
\* "jobs" the promise jobs the call itself enqueues.
tryCatch(fn, arg, c) ==
  LET result == InvokeFn(fn, c)
  IN  IF result.type = "throw"
      THEN CatchBlock(fn, arg, c, result.val)
      ELSE IF IsDeferred(result.val)
           THEN DeferredReturn(fn, arg, c)
           ELSE ImmediateReturn(fn, arg, c, result.val)

\* the promise job of result.then(onFulfilled): how the promise that then()
\* returned settles from the settled promise p (a rejection passes through)
ThenReaction(p) ==
  IF p.state = "fulfilled"
  THEN Promise("fulfilled", OnFulfilled(p.value))
  ELSE Promise("rejected", p.value)

\* a plausible slip: the chain rebuilt with a promise constructor whose
\* rejection handler settles the new promise only when the value is caught
CatchReactionNeverRejects(p, catchConditions) ==
  IF p.state = "fulfilled"
  THEN [promise |-> Promise("fulfilled", p.value), applied |-> <<>>]
  ELSE LET r == OnRejected(p.value, catchConditions)
       IN  [promise |-> IF r.type = "return" THEN Promise("fulfilled", r.val)
                        ELSE Pending,
            applied |-> r.applied]

\* the promise job of .catch(onRejected): how the promise that catch()
\* returned settles from the settled promise p (a fulfilment passes through),
\* and which conditions were applied
CatchReaction(p, catchConditions) ==
  IF p.state = "fulfilled"
  THEN [promise |-> Promise("fulfilled", p.value), applied |-> <<>>]
  ELSE LET r == OnRejected(p.value, catchConditions)
       IN  [promise |-> Promise(IF r.type = "return" THEN "fulfilled"
                                ELSE "rejected", r.val),
            applied |-> r.applied]

(***************************************************************************)
(* The state machine of the dispatcher: calls are made, the promises that  *)
(* callbacks returned settle, and the runtime runs the promise jobs in     *)
(* queue order.                                                            *)
(***************************************************************************)
Init ==
  /\ calls = <<>>
  /\ microtasks = <<>>
  /\ settleOrder = <<>>
  /\ listSeen = <<>>
  /\ probeValue = Undefined
  /\ probeSeen = {}

\* the event "promise n of the chain of call c settled", as settleOrder
\* records it (n = 1: the promise fn returned, n = 3: the promise tryCatch
\* returned, n = 0: the thenable fn returned, which is outside the chain)
SettleEvent(c, n) == [call |-> c, n |-> n]

\* a plausible slip: the list kept in a variable of the module, which every
\* call overwrites and every rejection handler reads
ClosureCondsShared(c) == DefaultConds(calls[Len(calls)].arg)

\* a plausible slip: the list copied when tryCatch is called,
\* [...catchConditions], and the copy handed to the rejection handler
ClosureCondsSnapshot(c) == listSeen[c].called

\* the contents, as they are now, of the array that call c was given and
\* that the closure of its rejection handler refers to
ClosureConds(c) == DefaultConds(calls[c].arg)

\* a caller calls tryCatch(fn, catchConditions) (or tryCatch(fn)); a promise
\* that fn returns already settled counts as settling at the call; listSeen
\* keeps the contents of the list at the call, at the settlement of the
\* promise fn returned and at the matching of the raised value
Call(fn, arg) ==
  /\ LET c == Len(calls) + 1
         r == tryCatch(fn, arg, c)
     IN  /\ calls' = Append(calls, r.call)
         /\ microtasks' = microtasks \o r.jobs
         /\ settleOrder' =
              IF r.call.promises # <<>> /\ r.call.promises[1].state # "pending"
              THEN Append(settleOrder, SettleEvent(c, 1))
              ELSE settleOrder
         /\ listSeen' = Append(listSeen, [called |-> DefaultConds(arg),
                                          rejected |-> DefaultConds(arg),
                                          matched |-> DefaultConds(arg)])
  /\ UNCHANGED <<probeValue, probeSeen>>

\* the pending promise that the callback of call c returned settles; the
\* reaction that then() registered on it is enqueued
Settle(c, state, v) ==
  /\ calls[c].promises # <<>>
  /\ calls[c].promises[1].state = "pending"
  /\ calls' = [calls EXCEPT ![c].promises[1] = Promise(state, v)]
  /\ microtasks' = Append(microtasks, [call |-> c, n |-> 1])
  /\ settleOrder' = Append(settleOrder, SettleEvent(c, 1))
  /\ listSeen' = [listSeen EXCEPT ![c].rejected = DefaultConds(calls[c].arg),
                                  ![c].matched = DefaultConds(calls[c].arg)]
  /\ UNCHANGED <<probeValue, probeSeen>>

\* the thenable that the callback of call c returned rejects: tryCatch has
\* not called its then method, so no reaction is there to be enqueued
RejectThenable(c) ==
  /\ calls[c].fn.mode = "return"
  /\ calls[c].fn.val \in Thenables
  /\ \A k \in DOMAIN settleOrder : settleOrder[k] # SettleEvent(c, 0)
  /\ settleOrder' = Append(settleOrder, SettleEvent(c, 0))
  /\ UNCHANGED <<calls, microtasks, listSeen, probeValue, probeSeen>>

\* a plausible slip: the fulfilment handler made async, so that the promise
\* then() returned is resolved with a promise and settles one job later on
\* the fulfilment path (job 0 is the extra job)
RunMicrotaskAsyncOnFulfilled ==
  /\ microtasks # <<>>
  /\ LET job == Head(microtasks)
         c == job.call
     IN  CASE job.n = 1 /\ calls[c].promises[1].state = "fulfilled" ->
                /\ microtasks' = Append(Tail(microtasks), [call |-> c, n |-> 0])
                /\ UNCHANGED <<calls, settleOrder, listSeen>>
           [] job.n = 0 \/ job.n = 1 ->
                /\ calls' = [calls EXCEPT ![c].promises[2] =
                                            ThenReaction(calls[c].promises[1])]
                /\ microtasks' = Append(Tail(microtasks), [call |-> c, n |-> 2])
                /\ UNCHANGED <<settleOrder, listSeen>>
           [] OTHER ->
                LET r == CatchReaction(calls[c].promises[2], ClosureConds(c))
                IN  /\ calls' = [calls EXCEPT ![c].promises[3] = r.promise,
                                              ![c].applied = r.applied]
                    /\ microtasks' = Tail(microtasks)
                    /\ listSeen' =
                         [listSeen EXCEPT ![c].matched = DefaultConds(calls[c].arg)]
                    /\ settleOrder' = Append(settleOrder, SettleEvent(c, 3))
  /\ UNCHANGED <<probeValue, probeSeen>>

\* the runtime runs the first promise job of the queue: job n of call c
\* settles promise n of the chain from promise n - 1
RunMicrotask ==
  /\ microtasks # <<>>
  /\ LET job == Head(microtasks)
         c == job.call
         p == calls[c].promises[job.n]
     IN  IF job.n = 1
         THEN /\ calls' = [calls EXCEPT ![c].promises[2] = ThenReaction(p)]
              /\ microtasks' = Append(Tail(microtasks), [call |-> c, n |-> 2])
              /\ UNCHANGED <<settleOrder, listSeen>>
         ELSE LET r == CatchReaction(p, ClosureConds(c))
              IN  /\ calls' = [calls EXCEPT ![c].promises[3] = r.promise,
                                            ![c].applied = r.applied]
                  /\ microtasks' = Tail(microtasks)
                  /\ listSeen' =
                       [listSeen EXCEPT ![c].matched = DefaultConds(calls[c].arg)]
                  /\ settleOrder' =
                       IF r.promise.state # "pending"
                       THEN Append(settleOrder, SettleEvent(c, 3))
                       ELSE settleOrder
  /\ UNCHANGED <<probeValue, probeSeen>>

Next ==
  \/ calls = <<>> /\ \E fn \in Fns, arg \in CondArgs : Call(fn, arg)
  \/ \E c \in 1..Len(calls) :
       /\ calls[c].promises # <<>>
       /\ calls[c].promises[1].state = "pending"
       /\ \E state \in {"fulfilled", "rejected"}, v \in Values :
            Settle(c, state, v)
  \/ \E c \in 1..Len(calls) : RejectThenable(c)
  \/ RunMicrotask

Spec == Init /\ [][Next]_vars

(***************************************************************************)
(* The state machine of several calls in flight together: callbacks that   *)
(* return promises, one value and two condition lists.                     *)
(***************************************************************************)
\* the values the promises of those calls settle with
PairValues == {Val("Number", 0)}

\* callbacks that return a promise, pending or already settled
PairFns ==
  [mode : {"promise"}, state : {"pending"}, val : {Undefined}] \cup
  [mode : {"promise"}, state : {"fulfilled", "rejected"}, val : PairValues]

\* the condition lists of those calls: omitted (a rejection is caught), or
\* [isNullThrown] (a rejection is passed on)
PairArgs ==
  {[given |-> FALSE, list |-> <<>>],
   [given |-> TRUE, list |-> <<[name |-> "isNullThrown", cls |-> "-"]>>]}

NextPair ==
  \/ Len(calls) < MaxCalls /\ \E fn \in PairFns, arg \in PairArgs : Call(fn, arg)
  \/ \E c \in 1..Len(calls) :
       /\ calls[c].promises # <<>>
       /\ calls[c].promises[1].state = "pending"
       /\ \E state \in {"fulfilled", "rejected"}, v \in PairValues :
            Settle(c, state, v)
  \/ RunMicrotask

SpecPair == Init /\ [][NextPair]_vars

(***************************************************************************)
(* The state machine of calls of both kinds in flight together: callbacks  *)
(* that return or raise at once, and callbacks that return promises.       *)
(***************************************************************************)
MixFns ==
  [mode : {"return", "throw"}, state : {"-"}, val : PairValues] \cup PairFns

NextMix ==
  \/ Len(calls) < MaxCalls /\ \E fn \in MixFns, arg \in PairArgs : Call(fn, arg)
  \/ \E c \in 1..Len(calls) :
       /\ calls[c].promises # <<>>
       /\ calls[c].promises[1].state = "pending"
       /\ \E state \in {"fulfilled", "rejected"}, v \in PairValues :
            Settle(c, state, v)
  \/ RunMicrotask

SpecMix == Init /\ [][NextMix]_vars

(***************************************************************************)
(* The state machine of one call whose caller goes on using the array it   *)
(* passed as the condition list.                                           *)
(***************************************************************************)
\* the conditions the caller puts in its array
MutableConds ==
  {[name |-> "isNullThrown", cls |-> "-"],
   [name |-> "isNumberThrown", cls |-> "-"]}

\* the contents the caller's array can have
MutableLists == UNION {[1..k -> MutableConds] : k \in 0..MaxConds}

\* callbacks that raise, or return a promise
MutableFns ==
  [mode : {"throw"}, state : {"-"}, val : PairValues] \cup PairFns

\* the caller changes the contents of the array it passed to call c (push,
\* pop, splice, assignment to an element)
MutateList(c, list) ==
  /\ calls[c].arg.given
  /\ list # calls[c].arg.list
  /\ calls' = [calls EXCEPT ![c].arg.list = list]
  /\ UNCHANGED <<microtasks, settleOrder, listSeen, probeValue, probeSeen>>

NextMutable ==
  \/ /\ calls = <<>>
     /\ \E fn \in MutableFns, list \in MutableLists :
          Call(fn, [given |-> TRUE, list |-> list])
  \/ \E c \in 1..Len(calls) :
       /\ calls[c].promises # <<>>
       /\ calls[c].promises[1].state = "pending"
       /\ \E state \in {"fulfilled", "rejected"}, v \in PairValues :
            Settle(c, state, v)
  \/ \E c \in 1..Len(calls), list \in MutableLists : MutateList(c, list)
  \/ RunMicrotask

SpecMutable == Init /\ [][NextMutable]_vars

\* the runtime does not leave a promise job in the queue for ever
SpecPairFair == SpecPair /\ WF_vars(RunMicrotask)

(***************************************************************************)
(* The state machine of the conditions alone: a value is drawn, and        *)
(* conditions are applied to it one after another.                         *)
(***************************************************************************)
\* the values conditions are probed with: every value a callback raises,
\* and an instance of a built-in subclass of Error
ProbeValues == Values \cup {CondRaised}

\* the conditions of the library: the built-ins and the factory's predicates
LibraryConditions == {cond \in Conditions : cond.name # "hasCode"}

InitProbe ==
  /\ calls = <<>>
  /\ microtasks = <<>>
  /\ settleOrder = <<>>
  /\ listSeen = <<>>
  /\ probeValue \in ProbeValues
  /\ probeSeen = {}

\* cond(probeValue) is evaluated and its answer recorded
Probe(cond) ==
  /\ Cardinality(probeSeen) < MaxProbes
  /\ LET r == ApplyCond(cond, probeValue)
     IN  probeSeen' =
           probeSeen \cup {[cond |-> cond, type |-> r.type, val |-> r.val]}
  /\ UNCHANGED <<calls, microtasks, settleOrder, listSeen, probeValue>>

\* the classes the factory is given when its predicates are probed: the
\* caller's classes and classes of the language
ProbeClasses == FactoryClasses \cup {"Error", "Object", "Function"}

\* the conditions that are probed
ProbeConditions ==
  LibraryConditions \cup [name : {"createCatchCondition"}, cls : ProbeClasses]

NextProbe == \E cond \in ProbeConditions : Probe(cond)

SpecProbe == InitProbe /\ [][NextProbe]_vars

(***************************************************************************)
(* What the claims speak of.                                               *)
(***************************************************************************)
\* call c went the deferred way: the chain of promises was built
IsDeferredCall(c) == calls[c].promises # <<>>

\* the promise the callback of a deferred call returned
Inner(c) == calls[c].promises[1]

\* the promise a deferred call returned to its caller
Outer(c) == calls[c].promises[3]

\* the condition list call c matches against
CondsOf(c) == IF calls[c].arg.given THEN calls[c].arg.list ELSE <<>>

\* no promise job is waiting: every settled promise has had its reactions run
Quiescent == microtasks = <<>>

\* the pair [undefined, v]
SuccessPair(v) == [kind |-> "Array", items |-> <<Undefined, v>>]

\* the one-element tuple [v]
FailureTuple(v) == [kind |-> "Array", items |-> <<v>>]

\* the completion "returned x" of a call
Returned(x) == [type |-> "return", val |-> x]

\* the completion "raised x" of a call
Raised(x) == [type |-> "throw", val |-> x]

\* C1: a callback that returns a non-deferred value v without raising makes
\* tryCatch return the pair [undefined, v] and raise nothing, whatever the
\* condition list (omitted, empty or non-empty).
C1_ImmediateSuccess ==
  \A c \in DOMAIN calls :
    calls[c].fn.mode = "return" =>
      /\ calls[c].completion = Returned(SuccessPair(calls[c].fn.val))
      /\ ~IsDeferredCall(c)

\* C1 witness: an Error object was returned (not raised) under a two-element
\* list holding a condition that is true of it, and came back as a success.
C1_Witness ==
  \E c \in DOMAIN calls :
    /\ calls[c].fn.mode = "return"
    /\ calls[c].fn.val.kind = "Error"
    /\ Len(CondsOf(c)) = 2
    /\ CondsOf(c)[2].name = "isErrorThrown"
    /\ calls[c].completion.type = "return"

\* C2: a callback that returns a promise which fulfils with v makes the
\* promise tryCatch returned fulfil, and never reject, with the pair
\* [undefined, v], whatever the condition list: the outer promise is not
\* rejected, once settled it holds the pair, and it is settled when the
\* promise jobs have run.
C2_DeferredSuccess ==
  \A c \in DOMAIN calls :
    (IsDeferredCall(c) /\ Inner(c).state = "fulfilled") =>
      /\ calls[c].completion = Returned(PromiseRef(c, 2))
      /\ Outer(c).state # "rejected"
      /\ Outer(c).state = "fulfilled" =>
           Outer(c).value = SuccessPair(Inner(c).value)
      /\ Quiescent => Outer(c).state = "fulfilled"

\* C2 witness: a promise that was pending when tryCatch returned has
\* fulfilled with an Error object under a list holding a matching condition,
\* and the outer promise has fulfilled.
C2_Witness ==
  \E c \in DOMAIN calls :
    /\ IsDeferredCall(c)
    /\ calls[c].fn.state = "pending"
    /\ Inner(c).state = "fulfilled"
    /\ Inner(c).value.kind = "Error"
    /\ Len(CondsOf(c)) = 1
    /\ CondsOf(c)[1].name = "isErrorThrown"
    /\ Outer(c).state = "fulfilled"

\* the callback of call c raised a value: it threw, or the promise it
\* returned rejected
HasRaised(c) ==
  \/ calls[c].fn.mode = "throw"
  \/ IsDeferredCall(c) /\ Inner(c).state = "rejected"

\* the value the callback of call c raised
RaisedValue(c) ==
  IF calls[c].fn.mode = "throw" THEN calls[c].fn.val ELSE Inner(c).value

\* the caller of call c has its outcome: at once in immediate mode, when the
\* outer promise has settled in deferred mode
Settled(c) == IsDeferredCall(c) => Outer(c).state # "pending"

\* call c ended with a Result: it returned a tuple, or its promise fulfilled
EndedWithResult(c) ==
  IF IsDeferredCall(c) THEN Outer(c).state = "fulfilled"
  ELSE calls[c].completion.type = "return"

\* the tuple call c ended with, or the value it raised or rejected with
OutcomeValue(c) ==
  IF IsDeferredCall(c) THEN Outer(c).value ELSE calls[c].completion.val

\* in deferred mode the outer promise has settled once the inner one has and
\* the promise jobs have run
SettlesWhenQuiescent(c) ==
  (IsDeferredCall(c) /\ Inner(c).state # "pending" /\ Quiescent) =>
    Outer(c).state # "pending"

\* condition cond returns true for v
ReturnsTrue(cond, v) ==
  LET r == ApplyCond(cond, v) IN r.type = "return" /\ r.val

\* condition cond returns false for v
ReturnsFalse(cond, v) ==
  LET r == ApplyCond(cond, v) IN r.type = "return" /\ ~r.val

\* condition cond raises when applied to v
RaisesOn(cond, v) == ApplyCond(cond, v).type = "throw"

C5_CallbackInvokedOnce == \A c \in DOMAIN calls : calls[c].invoked = 1

\* C5 witness: a promise that was pending at the call has rejected, the
\* rejection was propagated by the outer promise, and the callback was
\* invoked once.
C5_Witness ==
  \E c \in DOMAIN calls :
    /\ calls[c].fn.state = "pending"
    /\ Inner(c).state = "rejected"
    /\ Outer(c).state = "rejected"
    /\ calls[c].invoked = 1

\* C6: when the callback returns an immediate value, tryCatch returns the
\* Result tuple itself, synchronously: what the caller holds when control
\* comes back is an array and not a promise, no promise chain was built and
\* no promise job is left behind.
C6_ImmediateIsSynchronous ==
  \A c \in DOMAIN calls :
    calls[c].fn.mode = "return" =>
      /\ calls[c].completion.type = "return"
      /\ calls[c].completion.val.kind = "Array"
      /\ ~IsDeferred(calls[c].completion.val)
      /\ calls[c].promises = <<>>
      /\ \A k \in DOMAIN microtasks : microtasks[k].call # c

\* C6 witness: undefined was returned by the callback and the caller holds a
\* two-element array.
C6_Witness ==
  \E c \in DOMAIN calls :
    /\ calls[c].fn.mode = "return"
    /\ calls[c].fn.val = Undefined
    /\ calls[c].completion.val.kind = "Array"
    /\ Len(calls[c].completion.val.items) = 2

\* C7: whenever the callback produces a promise, tryCatch returns a promise
\* (the last one of the chain): it neither returns a tuple nor raises
\* synchronously, whatever the settlement of the inner promise and whatever
\* the condition list.
C7_DeferredReturnsPromise ==
  \A c \in DOMAIN calls :
    calls[c].fn.mode = "promise" =>
      /\ calls[c].completion = Returned(PromiseRef(c, 2))
      /\ IsDeferred(calls[c].completion.val)
      /\ IsDeferredCall(c)

\* C7 witness: the callback returned a promise that was already rejected with
\* a string, under the one-condition list [isNumberThrown]; the caller got a
\* promise, which later rejected.
C7_Witness ==
  \E c \in DOMAIN calls :
    /\ calls[c].fn.mode = "promise"
    /\ calls[c].fn.state = "rejected"
    /\ calls[c].fn.val.kind = "String"
    /\ Len(CondsOf(c)) = 1
    /\ CondsOf(c)[1].name = "isNumberThrown"
    /\ calls[c].completion.val.kind = "Promise"
    /\ Outer(c).state = "rejected"

\* the callback of call c produced a value: it returned one, or the promise
\* it returned fulfilled
HasProduced(c) ==
  \/ calls[c].fn.mode = "return"
  \/ IsDeferredCall(c) /\ Inner(c).state = "fulfilled"

\* the value the callback of call c produced
ProducedValue(c) ==
  IF calls[c].fn.mode = "return" THEN calls[c].fn.val ELSE Inner(c).value

\* the error slot of Result r is filled: r has position 0 and nothing else
ErrorPresent(r) == Len(r.items) = 1

\* the value slot of Result r is filled: r has a position 1
ValuePresent(r) == Len(r.items) >= 2

\* C8: every Result tryCatch produces (returned, or the fulfilment value of
\* the outer promise), for every callback outcome and every raised value,
\* a raised undefined included, has exactly one of "error present" and "value
\* present": a Success is [undefined, value] with position 0 undefined, and
\* comes from a produced value; a Failure is [error] with no position 1, and
\* comes from a raised value.
C8_ResultShape ==
  \A c \in DOMAIN calls :
    (Settled(c) /\ EndedWithResult(c)) =>
      LET r == OutcomeValue(c)
      IN  /\ r.kind = "Array"
          /\ ErrorPresent(r) # ValuePresent(r)
          /\ ValuePresent(r) =>
               /\ Len(r.items) = 2
               /\ r.items[1] = Undefined
               /\ HasProduced(c)
               /\ r.items[2] = ProducedValue(c)
          /\ ErrorPresent(r) =>
               /\ HasRaised(c)
               /\ r.items[1] = RaisedValue(c)

\* C8 witness: undefined was raised under an empty list and caught: the
\* Result is the one-element tuple [undefined].
C8_Witness ==
  \E c \in DOMAIN calls :
    /\ calls[c].fn.mode = "throw"
    /\ calls[c].fn.val = Undefined
    /\ calls[c].arg.given
    /\ CondsOf(c) = <<>>
    /\ calls[c].completion = Returned(FailureTuple(Undefined))

\* call c ended as Success(value)
IsSuccess(c) ==
  /\ HasProduced(c)
  /\ EndedWithResult(c)
  /\ OutcomeValue(c) = SuccessPair(ProducedValue(c))

\* call c ended as Failure(raised value)
IsFailure(c) ==
  /\ HasRaised(c)
  /\ EndedWithResult(c)
  /\ OutcomeValue(c) = FailureTuple(RaisedValue(c))

\* call c ended by propagating the value its callback raised
IsPropagation(c) ==
  /\ HasRaised(c)
  /\ ~EndedWithResult(c)
  /\ OutcomeValue(c) = RaisedValue(c)

\* call c ended by propagating a value that one of its conditions raised
\* while the raised value was being matched
IsConditionFailure(c) ==
  /\ HasRaised(c)
  /\ ~EndedWithResult(c)
  /\ \E i \in DOMAIN CondsOf(c) :
       /\ RaisesOn(CondsOf(c)[i], RaisedValue(c))
       /\ OutcomeValue(c) = ApplyCond(CondsOf(c)[i], RaisedValue(c)).val

\* how many of the predicates in the sequence ps hold
CountTrue(ps) == Cardinality({k \in DOMAIN ps : ps[k]})

ErrorSubclassKinds == {"CustomError", "TypeError"}

\* the answers recorded for the built-in condition called name
AnswersOf(name) == {a \in probeSeen : a.cond.name = name}

\* C10: isErrorThrown returns true exactly for the values whose prototype is
\* the generic Error prototype (plain Error instances) and false for every
\* instance of a class extending Error; isInstanceOfErrorThrown returns true
\* for both; so isErrorThrown(v) implies isInstanceOfErrorThrown(v), and both
\* are false for every value that is not an error.
C10_ErrorPredicates ==
  /\ \A a \in AnswersOf("isErrorThrown") :
       /\ a.type = "return"
       /\ a.val <=> probeValue.kind = "Error"
       /\ probeValue.kind \in ErrorSubclassKinds => ~a.val
  /\ \A b \in AnswersOf("isInstanceOfErrorThrown") :
       /\ b.type = "return"
       /\ b.val <=> probeValue.kind \in {"Error"} \cup ErrorSubclassKinds
  /\ \A a \in AnswersOf("isErrorThrown"),
        b \in AnswersOf("isInstanceOfErrorThrown") : a.val => b.val

\* C10 witness: both conditions were applied to a CustomError object;
\* isErrorThrown answered false and isInstanceOfErrorThrown answered true.
C10_Witness ==
  /\ probeValue.kind = "CustomError"
  /\ \E a \in AnswersOf("isErrorThrown") : ~a.val
  /\ \E b \in AnswersOf("isInstanceOfErrorThrown") : b.val

\* the kinds of value that are objects with a class of their own
ClassInstanceKinds ==
  {"Error", "CustomError", "TypeError", "Date", "CustomClass"}

\* C11: isObjectThrown returns false for arrays, for class instances (Error
\* instances, Date, instances of user classes), for null and for every
\* primitive and function; it returns true only for plain objects, and it
\* does return true for a plain object.
C11_PlainObjectsOnly ==
  \A a \in AnswersOf("isObjectThrown") :
    /\ a.type = "return"
    /\ a.val => probeValue.kind = "Object"
    /\ probeValue.kind = "Object" => a.val
    /\ probeValue.kind \in
         {"Array", "Null", "Function"} \cup ClassInstanceKinds
           \cup PrimitiveKinds => ~a.val

\* C11 witness: isObjectThrown and isTypeOfObjectThrown were applied to an
\* instance of a user class; the first answered false, the second true.
C11_Witness ==
  /\ probeValue.kind = "CustomClass"
  /\ \E a \in AnswersOf("isObjectThrown") : ~a.val
  /\ \E b \in AnswersOf("isTypeOfObjectThrown") : b.val

\* the answers recorded for the factory's predicates
FactoryAnswers == AnswersOf("createCatchCondition")

\* the answers of the conditions the superset claim lists on its left side
StructuralAnswers ==
  AnswersOf("isArrayThrown") \cup AnswersOf("isObjectThrown")
    \cup AnswersOf("isInstanceOfErrorThrown")

\* isTypeOfObjectThrown is false for null, undefined, functions, primitives
TypeOfObjectExcludes ==
  \A b \in AnswersOf("isTypeOfObjectThrown") :
    /\ b.type = "return"
    /\ probeValue.kind \in PrimitiveKinds \cup {"Function"} => ~b.val

\* C12 as stated: whenever isArrayThrown, isObjectThrown,
\* isInstanceOfErrorThrown or a factory predicate for some class is true of
\* a value, isTypeOfObjectThrown is true of it; and isTypeOfObjectThrown is
\* false for null, undefined, functions and every primitive.
C12_SupersetOfEveryFactoryPredicate ==
  /\ \A a \in StructuralAnswers \cup FactoryAnswers,
        b \in AnswersOf("isTypeOfObjectThrown") : a.val => b.val
  /\ TypeOfObjectExcludes

\* C12: whenever isArrayThrown, isObjectThrown or isInstanceOfErrorThrown is
\* true of a value, or a factory predicate is true of a value that is not a
\* function, isTypeOfObjectThrown is true of it; and isTypeOfObjectThrown is
\* false for null, undefined, functions and every primitive.
C12_SupersetExceptFunctions ==
  /\ \A a \in StructuralAnswers,
        b \in AnswersOf("isTypeOfObjectThrown") : a.val => b.val
  /\ \A a \in FactoryAnswers, b \in AnswersOf("isTypeOfObjectThrown") :
       a.val /\ probeValue.kind # "Function" => b.val
  /\ TypeOfObjectExcludes

\* C12 witness: the factory's predicate for a user class and
\* isTypeOfObjectThrown were applied to an instance of the class; both
\* answered true.
C12_Witness ==
  /\ probeValue.kind = "CustomClass"
  /\ \E a \in FactoryAnswers : a.cond.cls = "CustomClass" /\ a.val
  /\ \E b \in AnswersOf("isTypeOfObjectThrown") : b.val

\* the kinds of value that are instances of class C or of a subclass of C
KindsOfClass(C) ==
  CASE C = "Error" -> {"Error", "CustomError", "TypeError"}
    [] C = "CustomError" -> {"CustomError"}
    [] C = "CustomClass" -> {"CustomClass"}
    [] C = "Function" -> {"Function"}
    [] C = "Object" -> (ObjectKinds \cup {"TypeError"}) \ {"NullProtoObject"}
    [] OTHER -> {}

\* C13: the factory's predicate for class C returns true for instances of C
\* and of every subclass of C, false for instances of unrelated classes, for
\* null, for undefined and for every primitive; it never raises; and it
\* gives one answer for one value however often it is applied.
C13_FactoryPredicate ==
  /\ \A a \in FactoryAnswers :
       /\ a.type = "return"
       /\ a.val <=> probeValue.kind \in KindsOfClass(a.cond.cls)
       /\ probeValue.kind \in PrimitiveKinds => ~a.val
  /\ \A a, b \in FactoryAnswers : a.cond = b.cond => a = b

\* C13 witness: the predicates for Error and for CustomClass were applied to
\* an instance of a subclass of Error; the first answered true, the second
\* false.
C13_Witness ==
  /\ probeValue.kind = "CustomError"
  /\ \E a \in FactoryAnswers : a.cond.cls = "Error" /\ a.val
  /\ \E b \in FactoryAnswers : b.cond.cls = "CustomClass" /\ ~b.val

\* the kind-specific built-in conditions, each with the kinds of raised value
\* it is listed to catch
CatchesOf(name) ==
  CASE name = "isArrayThrown" -> {"Array"}
    [] name = "isBigIntThrown" -> {"BigInt"}
    [] name = "isBooleanThrown" -> {"Boolean"}
    [] name = "isFunctionThrown" -> {"Function"}
    [] name = "isNullThrown" -> {"Null"}
    [] name = "isNumberThrown" -> {"Number"}
    [] name = "isStringThrown" -> {"String"}
    [] name = "isSymbolThrown" -> {"Symbol"}
    [] name = "isUndefinedThrown" -> {"Undefined"}
    [] OTHER -> {}

KindSpecificNames ==
  {"isArrayThrown", "isBigIntThrown", "isBooleanThrown", "isFunctionThrown",
   "isNullThrown", "isNumberThrown", "isStringThrown", "isSymbolThrown",
   "isUndefinedThrown"}

\* call c was given the one-condition list [p], p a kind-specific built-in
HasKindSpecificList(c) ==
  /\ calls[c].arg.given
  /\ Len(CondsOf(c)) = 1
  /\ CondsOf(c)[1].name \in KindSpecificNames

\* C14: each kind-specific built-in condition p answers (never raises), true
\* exactly for raised values of its own kind; so tryCatch with the list [p]
\* catches a raised value of kind K (returns, or fulfils with, the tuple
\* holding it) iff K is in p's catches set, and raises or rejects with the
\* value otherwise, in sync and in async mode.
C14_KindSpecificBuiltIns ==
  \A c \in DOMAIN calls :
    (HasRaised(c) /\ Settled(c) /\ HasKindSpecificList(c)) =>
      LET p == CondsOf(c)[1]
          V == RaisedValue(c)
      IN  /\ ApplyCond(p, V) = Return(V.kind \in CatchesOf(p.name))
          /\ V.kind \in CatchesOf(p.name) => IsFailure(c)
          /\ V.kind \notin CatchesOf(p.name) => IsPropagation(c)

\* C14 witness: a promise rejected with undefined under the list
\* [isNullThrown]; the outer promise rejected with undefined.
C14_Witness ==
  \E c \in DOMAIN calls :
    /\ IsDeferredCall(c)
    /\ Inner(c) = Promise("rejected", Undefined)
    /\ HasKindSpecificList(c)
    /\ CondsOf(c)[1].name = "isNullThrown"
    /\ Outer(c) = Promise("rejected", Undefined)

\* the conditions a list holds
Range(list) == {list[i] : i \in DOMAIN list}

\* the non-empty lists of at most MaxConds conditions that hold the same
\* conditions as list: its reorderings, with or without duplicates
Rearrangements(list) ==
  {l \in UNION {[1..k -> Range(list)] : k \in 1..MaxConds} :
     Range(l) = Range(list)}

\* call c ended the way matching the value its callback raised against the
\* list conds ends
SameOutcomeWith(c, conds) ==
  LET r == returnCatchAbleErrorOrThrow(RaisedValue(c), conds)
  IN  /\ EndedWithResult(c) <=> r.type = "return"
      /\ OutcomeValue(c) = r.val

NamedNonErrorKinds == {"Number", "String", "Boolean", "Object", "Null"}

\* the callback of call c raised one of those values and no condition list
\* was passed
RaisedNonErrorWithoutList(c) ==
  /\ HasRaised(c)
  /\ Settled(c)
  /\ ~calls[c].arg.given
  /\ RaisedValue(c).kind \in NamedNonErrorKinds

MatchedAgainstList(c) ==
  /\ HasRaised(c)
  /\ Settled(c)
  /\ CondsOf(c) # <<>>

\* the list positions of the conditions applied in call c, in the order of
\* their application
Evaluated(c) == calls[c].applied

\* the conditions of call c were applied in list order from the first one
\* on, each once: positions 1, 2, .., k for some k >= 1
EvaluatedInListOrder(c) ==
  /\ Evaluated(c) # <<>>
  /\ \A k \in DOMAIN Evaluated(c) : Evaluated(c)[k] = k

\* every condition of the list of call c was applied
AllEvaluated(c) == Len(Evaluated(c)) = Len(CondsOf(c))

\* C17 as stated: when a raised value is matched against a non-empty list,
\* the conditions are evaluated in list order, each at most once; no
\* condition after the first one that returns true is evaluated; and all
\* conditions are evaluated only when none returns true.
C17_AllEvaluatedOnlyWhenNoneTrue ==
  \A c \in DOMAIN calls :
    MatchedAgainstList(c) =>
      /\ EvaluatedInListOrder(c)
      /\ \A i \in DOMAIN CondsOf(c) :
           ReturnsTrue(CondsOf(c)[i], RaisedValue(c)) =>
             \A k \in DOMAIN Evaluated(c) : Evaluated(c)[k] <= i
      /\ AllEvaluated(c) =>
           \A i \in DOMAIN CondsOf(c) :
             ~ReturnsTrue(CondsOf(c)[i], RaisedValue(c))

\* C17 amended: when a raised value is matched against a non-empty list, the
\* conditions are evaluated in list order, each at most once, and evaluation
\* stops at the first condition that returns true or raises: every condition
\* evaluated before the last evaluated one returned false, no condition
\* after one that returned true or raised is evaluated, and all conditions
\* are evaluated exactly when every condition before the last returns false.
C17_StopsAtFirstTrueOrRaise ==
  \A c \in DOMAIN calls :
    MatchedAgainstList(c) =>
      LET n == Len(Evaluated(c))
      IN  /\ EvaluatedInListOrder(c)
          /\ n <= Len(CondsOf(c))
          /\ \A i \in 1..(n - 1) :
               ReturnsFalse(CondsOf(c)[i], RaisedValue(c))
          /\ n < Len(CondsOf(c)) =>
               ~ReturnsFalse(CondsOf(c)[n], RaisedValue(c))
          /\ AllEvaluated(c) <=>
               \A i \in 1..(Len(CondsOf(c)) - 1) :
                 ReturnsFalse(CondsOf(c)[i], RaisedValue(c))

\* C17 witness: a promise rejected with null under
\* [isNullThrown, isNumberThrown]; only the first condition was evaluated.
C17_Witness ==
  \E c \in DOMAIN calls :
    /\ IsDeferredCall(c)
    /\ Inner(c) = Promise("rejected", Val("Null", 0))
    /\ Settled(c)
    /\ Len(CondsOf(c)) = 2
    /\ CondsOf(c)[1].name = "isNullThrown"
    /\ CondsOf(c)[2].name = "isNumberThrown"
    /\ Evaluated(c) = <<1>>

\* C18: in deferred mode tryCatch has returned its promise to the caller
\* whether or not the inner promise has settled (it never waits), the outer
\* promise is never settled before the inner one: in every reachable state
\* outer settled implies inner settled (and so does the promise in
\* between), and conditions are evaluated only after the inner promise has
\* rejected.
C18_OuterNeverBeforeInner ==
  \A c \in DOMAIN calls :
    IsDeferredCall(c) =>
      /\ calls[c].completion = Returned(PromiseRef(c, 2))
      /\ Outer(c).state # "pending" => calls[c].promises[2].state # "pending"
      /\ calls[c].promises[2].state # "pending" => Inner(c).state # "pending"
      /\ Outer(c).state # "pending" => Inner(c).state # "pending"
      /\ Evaluated(c) # <<>> => Inner(c).state = "rejected"

\* C18 witness: tryCatch has returned its promise while the promise of the
\* callback is pending, and the outer promise is pending with it; no
\* condition of the list has been evaluated.
C18_Witness ==
  \E c \in DOMAIN calls :
    /\ IsDeferredCall(c)
    /\ Inner(c).state = "pending"
    /\ Outer(c).state = "pending"
    /\ calls[c].completion = Returned(PromiseRef(c, 2))
    /\ CondsOf(c) # <<>>
    /\ Evaluated(c) = <<>>

\* call c is a deferred one and its inner promise has settled
InnerSettled(c) ==
  c \in DOMAIN calls /\ IsDeferredCall(c) /\ Inner(c).state # "pending"

\* call c is a deferred one and its outer promise has settled
OuterSettled(c) ==
  c \in DOMAIN calls /\ IsDeferredCall(c) /\ Outer(c).state # "pending"

\* a step leaves a settled outer promise as it is
OuterKeepsItsSettlement ==
  \A c \in DOMAIN calls :
    (IsDeferredCall(c) /\ Outer(c).state # "pending") =>
      /\ c \in DOMAIN calls'
      /\ calls'[c].promises[3] = calls[c].promises[3]

\* how many times settleOrder records that the outer promise of c settled
OuterSettlements(c) ==
  Cardinality({k \in DOMAIN settleOrder : settleOrder[k] = SettleEvent(c, 3)})

\* C19: in deferred mode, once the inner promise has settled the outer
\* promise settles eventually (the runtime runs every queued promise job);
\* it settles exactly once and a settled outer promise never changes; and
\* as long as the inner promise is pending the outer one is pending, so an
\* inner promise that never settles leaves the outer one pending for ever.
C19_OuterSettlesIffInnerDoes ==
  /\ \A c \in 1..MaxCalls : InnerSettled(c) ~> OuterSettled(c)
  /\ [][OuterKeepsItsSettlement]_vars
  /\ [](\A c \in DOMAIN calls :
          IsDeferredCall(c) =>
            /\ OuterSettlements(c) = IF Outer(c).state = "pending" THEN 0 ELSE 1
            /\ Inner(c).state = "pending" => Outer(c).state = "pending")

\* C19 witness: the inner promise rejected with a value that the list does
\* not catch, and the outer promise has rejected with it.
C19_Witness ==
  /\ InnerSettled(1)
  /\ OuterSettled(1)
  /\ Inner(1).state = "rejected"
  /\ CondsOf(1) # <<>>
  /\ Outer(1) = Promise("rejected", Inner(1).value)
  /\ OuterSettlements(1) = 1

\* settleOrder records that promise n of call c settled
HasSettled(c, n) ==
  \E k \in DOMAIN settleOrder : settleOrder[k] = SettleEvent(c, n)

\* where in settleOrder promise n of call c settled
SettledAt(c, n) ==
  CHOOSE k \in DOMAIN settleOrder : settleOrder[k] = SettleEvent(c, n)

\* the inner promise of call a settled before the inner promise of call b
InnerSettledBefore(a, b) ==
  /\ HasSettled(a, 1)
  /\ HasSettled(b, 1)
  /\ SettledAt(a, 1) < SettledAt(b, 1)

\* C20: for any two deferred calls A and B whose inner promises settle in
\* the order A then B, the outer promises settle in the order A then B,
\* whether each of them fulfils or rejects and whether its rejection is
\* caught: when B's outer promise has settled, A's has settled before it
\* (both paths of a call take the same number of promise jobs).
C20_OuterOrderFollowsInnerOrder ==
  \A a, b \in DOMAIN calls :
    (InnerSettledBefore(a, b) /\ HasSettled(b, 3)) =>
      /\ HasSettled(a, 3)
      /\ SettledAt(a, 3) < SettledAt(b, 3)

\* C20 witness: two calls were in flight with pending inner promises; the
\* second one's rejected first, then the first one's fulfilled, and the
\* outer promises settled in that order, the second call's before the
\* first call's.
C20_Witness ==
  /\ Len(calls) >= 2
  /\ settleOrder = <<SettleEvent(2, 1), SettleEvent(1, 1),
                     SettleEvent(2, 3), SettleEvent(1, 3)>>
  /\ calls[1].fn.state = "pending"
  /\ calls[2].fn.state = "pending"
  /\ Inner(2).state = "rejected"
  /\ Inner(1).state = "fulfilled"
  /\ Outer(2).state # "pending"
  /\ Outer(1).state # "pending"

\* C22: when the callback returns normally or its promise fulfils, no
\* condition of the list is ever evaluated and the produced value is not
\* classified: a returned value that a condition of the list would match
\* (an Error object, say) still yields the Success [undefined, value],
\* never a Failure and never a propagation.
C22_ProducedValueNotClassified ==
  \A c \in DOMAIN calls :
    HasProduced(c) =>
      /\ Evaluated(c) = <<>>
      /\ Settled(c) =>
           /\ IsSuccess(c)
           /\ ~IsFailure(c)
           /\ EndedWithResult(c)

\* C22 witness: the callback returned an Error object under the list
\* [isErrorThrown]; tryCatch returned the pair [undefined, the object] and
\* evaluated no condition.
C22_Witness ==
  \E c \in DOMAIN calls :
    /\ calls[c].fn.mode = "return"
    /\ calls[c].fn.val = Val("Error", 1)
    /\ Len(CondsOf(c)) = 1
    /\ CondsOf(c)[1].name = "isErrorThrown"
    /\ ReturnsTrue(CondsOf(c)[1], calls[c].fn.val)
    /\ calls[c].completion = Returned(SuccessPair(Val("Error", 1)))
    /\ Evaluated(c) = <<>>

\* condition number i of the list of call c raises when it is applied to the
\* raised value, and every condition before it returns false
FirstToAnswerRaises(c, i) ==
  /\ i \in DOMAIN CondsOf(c)
  /\ RaisesOn(CondsOf(c)[i], RaisedValue(c))
  /\ \A j \in 1..(i - 1) : ReturnsFalse(CondsOf(c)[j], RaisedValue(c))

\* C24: if a condition raises a value W while a raised value V is matched,
\* no earlier condition having returned true, then W is what leaves
\* tryCatch, not V: in sync mode W is raised to the caller, in deferred
\* mode the outer promise rejects with W; V is neither returned in a tuple
\* nor raised again, and the conditions after the raising one are not
\* evaluated.
C24_ConditionRaisePropagates ==
  \A c \in DOMAIN calls :
    (HasRaised(c) /\ Settled(c)) =>
      \A i \in DOMAIN CondsOf(c) :
        FirstToAnswerRaises(c, i) =>
          LET W == ApplyCond(CondsOf(c)[i], RaisedValue(c)).val
          IN  /\ W # RaisedValue(c)
              /\ ~EndedWithResult(c)
              /\ OutcomeValue(c) = W
              /\ ~IsFailure(c)
              /\ ~IsPropagation(c)
              /\ ~IsDeferredCall(c) => calls[c].completion = Raised(W)
              /\ IsDeferredCall(c) => Outer(c) = Promise("rejected", W)
              /\ Len(Evaluated(c)) = i
              /\ \A k \in DOMAIN Evaluated(c) : Evaluated(c)[k] = k

\* C24 witness: a promise rejected with undefined under the list
\* [hasCode, isUndefinedThrown]; hasCode raised a TypeError, the outer
\* promise rejected with that TypeError and isUndefinedThrown, which
\* returns true for undefined, was not evaluated.
C24_Witness ==
  \E c \in DOMAIN calls :
    /\ IsDeferredCall(c)
    /\ Inner(c) = Promise("rejected", Undefined)
    /\ Len(CondsOf(c)) = 2
    /\ CondsOf(c)[1].name = "hasCode"
    /\ CondsOf(c)[2].name = "isUndefinedThrown"
    /\ Outer(c) = Promise("rejected", CondRaised)
    /\ Evaluated(c) = <<1>>

\* the invocation of the callback of call c raised (whatever the callback
\* returns when it does not raise, a promise included)
RaisedSynchronously(c) == calls[c].fn.mode = "throw"

\* call c was completed on the synchronous path: what came back is no
\* promise, no chain was built and no promise job is queued for the call
CompletedSynchronously(c) ==
  /\ ~IsDeferredCall(c)
  /\ calls[c].completion.val.kind # "Promise"
  /\ \A k \in DOMAIN microtasks : microtasks[k].call # c

ReturnedThenable(c) ==
  calls[c].fn.mode = "return" /\ calls[c].fn.val \in Thenables

\* C26: deferred mode is selected only when the callback returned an
\* instance of the native Promise; a returned thenable that is no Promise
\* instance is treated as immediate: tryCatch returns [undefined, thenable]
\* synchronously and attaches no continuation, and when the thenable rejects
\* later nothing is caught and no condition is evaluated.
C26_ThenableIsImmediate ==
  \A c \in DOMAIN calls :
    /\ IsDeferredCall(c) => calls[c].fn.mode = "promise"
    /\ ReturnedThenable(c) =>
         /\ calls[c].completion = Returned(SuccessPair(calls[c].fn.val))
         /\ CompletedSynchronously(c)
         /\ Evaluated(c) = <<>>

\* C26 witness: the callback returned a thenable under the list
\* [isNumberThrown]; the thenable has rejected since, and the call is as it
\* was: the pair [undefined, thenable], no promise, no job, no condition
\* evaluated.
C26_Witness ==
  \E c \in DOMAIN calls :
    /\ ReturnedThenable(c)
    /\ Len(CondsOf(c)) = 1
    /\ CondsOf(c)[1].name = "isNumberThrown"
    /\ HasSettled(c, 0)
    /\ calls[c].completion = Returned(SuccessPair(calls[c].fn.val))
    /\ calls[c].promises = <<>>
    /\ microtasks = <<>>
    /\ Evaluated(c) = <<>>

\* the promise the callback of call c returned has rejected and the outer
\* promise has settled
RejectedAndSettled(c) ==
  /\ IsDeferredCall(c)
  /\ Inner(c).state = "rejected"
  /\ Outer(c).state # "pending"

OutcomeAsIfAlone(c) ==
  /\ HasProduced(c) => IsSuccess(c) /\ Evaluated(c) = <<>>
  /\ HasRaised(c) =>
       /\ SameOutcomeWith(c, CondsOf(c))
       /\ Evaluated(c) =
            returnCatchAbleErrorOrThrow(RaisedValue(c), CondsOf(c)).applied

\* a step changes the record of one call at most
OneCallPerStep ==
  \A a, b \in DOMAIN calls :
    a # b => calls'[a] = calls[a] \/ calls'[b] = calls[b]

\* C21: every call is independent: with sync calls made while deferred
\* calls are pending, several deferred calls pending together and the inner
\* promises settling in any order, each call ends as it would alone with
\* the same callback and the same list; a deferred call has a promise of
\* its own, and no step of one call changes the Result, the raised value or
\* the evaluated conditions of another.
C21_CallsAreIndependent ==
  /\ [](\A c \in DOMAIN calls :
          /\ Settled(c) => OutcomeAsIfAlone(c)
          /\ IsDeferredCall(c) =>
               calls[c].completion = Returned(PromiseRef(c, 2)))
  /\ [][OneCallPerStep]_vars

\* C21 witness: a call with the list [isNullThrown] and a pending promise
\* was followed by a sync call with no list whose callback raised a number
\* and got it caught; the promise then rejected with the number and the
\* outer promise of the first call rejected with it.
C21_Witness ==
  /\ Len(calls) >= 2
  /\ calls[1].fn.state = "pending"
  /\ CondsOf(1) # <<>>
  /\ calls[2].fn.mode = "throw"
  /\ ~calls[2].arg.given
  /\ calls[2].completion = Returned(FailureTuple(Val("Number", 0)))
  /\ Inner(1) = Promise("rejected", Val("Number", 0))
  /\ Outer(1) = Promise("rejected", Val("Number", 0))

====
